---- MODULE Spec2Model ----
(***************************************************************************)
(* Gossip subscription of iroh-ffi (src/gossip.rs): Gossip::subscribe, the *)
(* pump task it spawns (the biased select loop), and the Sender handle     *)
(* (broadcast, broadcast_neighbors, cancel) used by concurrent callers.    *)
(***************************************************************************)
EXTENDS Integers, Sequences, FiniteSets, TLC

(* ------------------------------ bounds -------------------------------- *)

\* inbound items the engine puts on the stream of one subscription
MaxItems == 2
\* updates the outbound sink accepts
MaxOut == 1
\* entries of a bootstrap list
MaxBoot == 2

\* peers of a Joined message handed to an accessor
MaxPeers == 2

\* callers that use the Sender concurrently
Threads == {"t1", "t2"}

\* topic.len() != 32
TOPIC_LEN == 32

TopicLens == {0, 31, 32, 33}
NodeIds == {1, 2}
Payloads == {<<104, 105>>}

(* ------------------------------ values -------------------------------- *)

\* a topic of n bytes, as the test builds it ([1u8; 32].to_vec())
TopicOf(n) == [i \in 1..n |-> 1]

\* NodeId's Display: the textual form of a node id
NodeIdToString(n) == IF n = 1 THEN "aaaa" ELSE "bbbb"

\* the strings a caller may pass as bootstrap entries; "zz" is no node id
PeerStrings == {NodeIdToString(n) : n \in NodeIds} \cup {"zz"}

\* NodeId's FromStr: b.parse()
ParseNodeId(s) ==
    IF \E n \in NodeIds : NodeIdToString(n) = s
    THEN [ok |-> TRUE, id |-> CHOOSE n \in NodeIds : NodeIdToString(n) = s, err |-> ""]
    ELSE [ok |-> FALSE, id |-> 0, err |-> s]

SeqsUpTo(S, n) == UNION {[1..k -> S] : k \in 0..n}

BootLists == SeqsUpTo(PeerStrings, MaxBoot)

\* the items of the inbound stream: Result<SubscribeResponse, Error>
Events ==
    {[ok |-> TRUE, kind |-> "NeighborUp", n |-> 1],
     [ok |-> TRUE, kind |-> "NeighborDown", n |-> 2],
     [ok |-> TRUE, kind |-> "Received", content |-> <<104, 105>>, delivered_from |-> 2],
     [ok |-> TRUE, kind |-> "Joined", nodes |-> <<2, 1>>],
     [ok |-> TRUE, kind |-> "Lagged"],
     [ok |-> FALSE, err |-> "stream error"]}

\* enum Message
MsgNeighborUp(s) == [type |-> "NeighborUp", s |-> s]
MsgNeighborDown(s) == [type |-> "NeighborDown", s |-> s]
MsgReceived(c, d) == [type |-> "Received", content |-> c, delivered_from |-> d]
MsgJoined(l) == [type |-> "Joined", nodes |-> l]
MsgLagged == [type |-> "Lagged"]
MsgError(s) == [type |-> "Error", s |-> s]

\* mutant: the peers of Joined are collected in reverse order
ToMessage_JoinedReversed(event) ==
    IF ~event.ok THEN MsgError(event.err)
    ELSE IF event.kind = "NeighborUp" THEN MsgNeighborUp(NodeIdToString(event.n))
    ELSE IF event.kind = "NeighborDown" THEN MsgNeighborDown(NodeIdToString(event.n))
    ELSE IF event.kind = "Received"
         THEN MsgReceived(event.content, NodeIdToString(event.delivered_from))
    ELSE IF event.kind = "Joined"
         THEN MsgJoined([i \in 1..Len(event.nodes) |->
                            NodeIdToString(event.nodes[Len(event.nodes) + 1 - i])])
    ELSE MsgLagged

\* the match of the pump: one Message per inbound item
ToMessage(event) ==
    IF ~event.ok THEN MsgError(event.err)
    ELSE IF event.kind = "NeighborUp" THEN MsgNeighborUp(NodeIdToString(event.n))
    ELSE IF event.kind = "NeighborDown" THEN MsgNeighborDown(NodeIdToString(event.n))
    ELSE IF event.kind = "Received"
         THEN MsgReceived(event.content, NodeIdToString(event.delivered_from))
    ELSE IF event.kind = "Joined"
         THEN MsgJoined([i \in 1..Len(event.nodes) |-> NodeIdToString(event.nodes[i])])
    ELSE MsgLagged

(* ------------------------------- state -------------------------------- *)

VARIABLES
    subArgs,        \* the arguments of the subscribe call
    subResult,      \* what subscribe returned: status "none" before the call,
                    \* "Ok" (a Sender) or "Err" with the error
    engineCalls,    \* the calls made to the engine's subscribe
    pumpPc,         \* "none" (not spawned), "poll_cancel", "poll_stream",
                    \* "parked", "await_cb", "stopped"
    streamOff,      \* select!: the stream branch is disabled in this call
    arrived,        \* every item the engine has put on the stream, in order
    taken,          \* how many of them stream.next() has yielded
    streamClosed,   \* the engine has ended the stream
    delivered,      \* the messages on_message was invoked with, in order
    cbInFlight,     \* on_message invocations begun and not yet returned
    warned,         \* warn!("cb error, ...") lines logged
    cancelled,      \* the CancellationToken shared by Sender and pump
    sinkLock,       \* the holder of Sender.sink's mutex, "free" if none
    sinkClosed,     \* the sink has been closed successfully
    outbound,       \* the updates the sink has accepted, in order
    tpc,            \* per caller: "idle", "lock", "io", "set"
    top,            \* per caller: the call in progress
    tres,           \* per caller: what its last finished call returned
    cancelOk,       \* some cancel() has returned Ok
    tafter,         \* per caller: its call began after a cancel() returned Ok
    tretry,         \* per caller: its cancel() is in progress and began after a
                    \* cancel() returned the error of close
    deliveredAtCancel, \* Len(delivered) when cancel() first returned Ok
    access,         \* the last call of a narrowing accessor of Message: the
                    \* message, the accessor and what the call did
    peer,           \* the subscription of a second node to the same topic: the
                    \* position of its pump, its inbound stream, the items taken
                    \* and the messages handed to its callback
    net             \* the gossip engine between the two nodes: whom it has
                    \* told of the join, and how many outbound items it relayed

subVars == <<subArgs, subResult, engineCalls>>
pumpVars == <<pumpPc, streamOff, taken, delivered, cbInFlight, warned>>
streamVars == <<arrived, streamClosed>>
sinkVars == <<sinkLock, sinkClosed, outbound>>
callerVars == <<tpc, top, tres, tafter, tretry>>
histVars == <<cancelOk, deliveredAtCancel>>
peerVars == <<peer, net>>
vars == <<subVars, pumpVars, streamVars, cancelled, sinkVars, callerVars, histVars,
          access, peerVars>>

\* no accessor has been called
NoAccess == [msg |-> MsgLagged, accessor |-> "none", outcome |-> "none", value |-> <<>>]

Init ==
    /\ subArgs = [topic |-> <<>>, bootstrap |-> <<>>]
    /\ subResult = [status |-> "none", err |-> "", detail |-> ""]
    /\ engineCalls = <<>>
    /\ pumpPc = "none"
    /\ streamOff = FALSE
    /\ arrived = <<>>
    /\ taken = 0
    /\ streamClosed = FALSE
    /\ delivered = <<>>
    /\ cbInFlight = 0
    /\ warned = 0
    /\ cancelled = FALSE
    /\ sinkLock = "free"
    /\ sinkClosed = FALSE
    /\ outbound = <<>>
    /\ tpc = [t \in Threads |-> "idle"]
    /\ top = [t \in Threads |-> [op |-> "none", msg |-> <<>>]]
    /\ tres = [t \in Threads |-> "none"]
    /\ cancelOk = FALSE
    /\ tafter = [t \in Threads |-> FALSE]
    /\ tretry = [t \in Threads |-> FALSE]
    /\ deliveredAtCancel = 0
    /\ access = NoAccess
    /\ peer = [pc |-> "none", bootstrap |-> <<>>, arrived |-> <<>>, taken |-> 0,
               delivered |-> <<>>, cbInFlight |-> 0]
    /\ net = [joined |-> {}, relayed |-> 0]

(* -------------------------- Message accessors ------------------------- *)

\* the messages an accessor may be called on
Contents == {<<>>, <<104, 105>>}
NodeStrings == {NodeIdToString(n) : n \in NodeIds}
Messages ==
    {MsgNeighborUp(x) : x \in NodeStrings}
    \cup {MsgNeighborDown(x) : x \in NodeStrings}
    \cup {MsgReceived(c, d) : c \in Contents, d \in NodeStrings}
    \cup {MsgJoined(l) : l \in SeqsUpTo(NodeStrings, MaxPeers)}
    \cup {MsgLagged}
    \cup {MsgError(x) : x \in {"stream error", "send error"}}

\* what a call does: it returns a value, or it panics with a text
Return(v) == [outcome |-> "return", value |-> v]
Panic(text) == [outcome |-> "panic", value |-> text]

\* Message::type
type(m) == Return(m.type)

\* Message::as_neighbor_up
as_neighbor_up(m) ==
    IF m.type = "NeighborUp" THEN Return(m.s) ELSE Panic("not a NeighborUp message")

\* Message::as_neighbor_down
as_neighbor_down(m) ==
    IF m.type = "NeighborDown" THEN Return(m.s) ELSE Panic("not a NeighborDown message")

\* Message::as_joined
as_joined(m) ==
    IF m.type = "Joined" THEN Return(m.nodes) ELSE Panic("not a Joined message")

\* Message::as_received: a MessageContent
as_received(m) ==
    IF m.type = "Received"
    THEN Return([content |-> m.content, delivered_from |-> m.delivered_from])
    ELSE Panic("not a Received message")

\* Message::as_error
as_error(m) ==
    IF m.type = "Error" THEN Return(m.s) ELSE Panic("not a Error message")

Accessors == {"type", "as_neighbor_up", "as_neighbor_down", "as_joined",
              "as_received", "as_error"}

\* the call of accessor a on message m
Call(a, m) ==
    CASE a = "type" -> type(m)
      [] a = "as_neighbor_up" -> as_neighbor_up(m)
      [] a = "as_neighbor_down" -> as_neighbor_down(m)
      [] a = "as_joined" -> as_joined(m)
      [] a = "as_received" -> as_received(m)
      [] a = "as_error" -> as_error(m)

\* a caller holding a message calls one of its accessors
call_accessor(m, a) ==
    /\ access' = [msg |-> m, accessor |-> a,
                  outcome |-> Call(a, m).outcome, value |-> Call(a, m).value]
    /\ UNCHANGED <<subVars, pumpVars, streamVars, cancelled, sinkVars, callerVars,
                   histVars, peerVars>>

(* ----------------------------- subscribe ------------------------------ *)

\* mutant: entries that do not parse are skipped (filter_map(|b| b.parse().ok()))
ParseBootstrap_SkipInvalid(bootstrap) ==
    LET RECURSIVE Keep(_)
        Keep(l) == IF l = <<>> THEN <<>>
                   ELSE IF ParseNodeId(Head(l)).ok
                        THEN <<ParseNodeId(Head(l)).id>> \o Keep(Tail(l))
                        ELSE Keep(Tail(l))
    IN  [ok |-> TRUE, ids |-> Keep(bootstrap), err |-> ""]

\* bootstrap.into_iter().map(|b| b.parse()).collect::<Result<Vec<NodeId>, _>>()
ParseBootstrap(bootstrap) ==
    IF \E i \in 1..Len(bootstrap) : ~ParseNodeId(bootstrap[i]).ok
    THEN LET i == CHOOSE j \in 1..Len(bootstrap) :
                      /\ ~ParseNodeId(bootstrap[j]).ok
                      /\ \A k \in 1..(j - 1) : ParseNodeId(bootstrap[k]).ok
         IN  [ok |-> FALSE, ids |-> <<>>, err |-> ParseNodeId(bootstrap[i]).err]
    ELSE [ok |-> TRUE,
          ids |-> [i \in 1..Len(bootstrap) |-> ParseNodeId(bootstrap[i]).id],
          err |-> ""]

\* anyhow::anyhow!("topic must not be longer than 32 bytes")
TopicError == "topic must not be longer than 32 bytes"

\* mutant: the check the error message describes (not longer than 32)
TopicOk_NotLonger(topic) == Len(topic) <= TOPIC_LEN

\* if topic.len() != 32 { return Err(..) }
TopicOk(topic) == Len(topic) = TOPIC_LEN

\* Gossip::subscribe: validation, the engine's subscribe, the spawn of the pump
\* and the construction of the Sender
subscribe(topic, bootstrap, engineOk) ==
    /\ subResult.status = "none"
    /\ subArgs' = [topic |-> topic, bootstrap |-> bootstrap]
    /\ IF ~TopicOk(topic)
       THEN /\ subResult' = [status |-> "Err", err |-> "topic", detail |-> TopicError]
            /\ UNCHANGED <<engineCalls, pumpPc>>
       ELSE IF ~ParseBootstrap(bootstrap).ok
       THEN /\ subResult' = [status |-> "Err", err |-> "parse",
                              detail |-> ParseBootstrap(bootstrap).err]
            /\ UNCHANGED <<engineCalls, pumpPc>>
       ELSE /\ engineCalls' = Append(engineCalls,
                   [topic |-> topic, bootstrap |-> ParseBootstrap(bootstrap).ids])
            /\ IF engineOk
               THEN /\ subResult' = [status |-> "Ok", err |-> "", detail |-> ""]
                    /\ pumpPc' = "poll_cancel"
               ELSE /\ subResult' = [status |-> "Err", err |-> "engine", detail |-> ""]
                    /\ UNCHANGED pumpPc
    /\ UNCHANGED <<access, peerVars, streamOff, taken, delivered, cbInFlight, warned,
                   streamVars, cancelled, sinkVars, callerVars, histVars>>

\* the Sender exists once subscribe has returned Ok
HandleExists == subResult.status = "Ok"

(* ------------------------------ the pump ------------------------------ *)

\* the branch `_ = cancel.cancelled()` has no precondition and a pattern
\* that always matches: select! never disables it
CancelBranchOff == FALSE

\* select! evaluates `else` only when every branch is disabled
SelectElse(streamDisabled) == CancelBranchOff /\ streamDisabled

\* mutant: select! without `biased`: a ready item wins over the token
pump_poll_cancelled_unbiased ==
    /\ pumpPc = "poll_cancel"
    /\ pumpPc' = IF ~streamOff /\ taken < Len(arrived) THEN "poll_stream"
                 ELSE IF cancelled THEN "stopped"
                 ELSE IF streamOff THEN "parked"
                 ELSE "poll_stream"
    /\ UNCHANGED <<subVars, access, peerVars, streamOff, taken, delivered, cbInFlight, warned,
                   streamVars, cancelled, sinkVars, callerVars, histVars>>

\* biased select!, first branch: cancel.cancelled() is polled first
pump_poll_cancelled ==
    /\ pumpPc = "poll_cancel"
    /\ pumpPc' = IF cancelled THEN "stopped"
                 ELSE IF streamOff THEN "parked"
                 ELSE "poll_stream"
    /\ UNCHANGED <<subVars, access, peerVars, streamOff, taken, delivered, cbInFlight, warned,
                   streamVars, cancelled, sinkVars, callerVars, histVars>>

\* mutant: the callback is started and not awaited
PumpDeliver_NotAwaited ==
    /\ taken' = taken + 1
    /\ delivered' = Append(delivered, ToMessage(arrived[taken + 1]))
    /\ cbInFlight' = cbInFlight + 1
    /\ pumpPc' = "poll_cancel"
    /\ UNCHANGED streamOff

\* mutant: an Err item ends the loop instead of becoming Message::Error
PumpDeliver_BreakOnErr ==
    IF arrived[taken + 1].ok
    THEN /\ taken' = taken + 1
         /\ delivered' = Append(delivered, ToMessage(arrived[taken + 1]))
         /\ cbInFlight' = cbInFlight + 1
         /\ pumpPc' = "await_cb"
         /\ UNCHANGED streamOff
    ELSE /\ taken' = taken + 1
         /\ pumpPc' = "stopped"
         /\ UNCHANGED <<delivered, cbInFlight, streamOff>>

\* Some(event): the match builds the Message and cb.on_message(..) is invoked
PumpDeliver ==
    /\ taken' = taken + 1
    /\ delivered' = Append(delivered, ToMessage(arrived[taken + 1]))
    /\ cbInFlight' = cbInFlight + 1
    /\ pumpPc' = "await_cb"
    /\ UNCHANGED streamOff

\* biased select!, second branch: stream.next() is polled after cancelled()
\* returned Pending
pump_poll_stream ==
    /\ pumpPc = "poll_stream"
    /\ IF taken < Len(arrived)
       THEN PumpDeliver
       ELSE IF streamClosed
       THEN \* None does not match Some(event): the branch is disabled
            /\ streamOff' = TRUE
            /\ pumpPc' = IF SelectElse(TRUE) THEN "stopped" ELSE "parked"
            /\ UNCHANGED <<taken, delivered, cbInFlight>>
       ELSE \* Pending
            /\ pumpPc' = "parked"
            /\ UNCHANGED <<streamOff, taken, delivered, cbInFlight>>
    /\ UNCHANGED <<subVars, access, peerVars, warned, streamVars, cancelled, sinkVars, callerVars,
                   histVars>>

\* the task is woken by the token or by the stream and select! polls again
pump_wake ==
    /\ pumpPc = "parked"
    /\ \/ cancelled
       \/ ~streamOff /\ (taken < Len(arrived) \/ streamClosed)
    /\ pumpPc' = "poll_cancel"
    /\ UNCHANGED <<subVars, access, peerVars, streamOff, taken, delivered, cbInFlight, warned,
                   streamVars, cancelled, sinkVars, callerVars, histVars>>

\* mutant: a callback error ends the loop
PumpAfterCallback_Break(res) ==
    /\ warned' = IF res = "Err" THEN warned + 1 ELSE warned
    /\ pumpPc' = IF res = "Err" THEN "stopped" ELSE "poll_cancel"
    /\ streamOff' = FALSE
    /\ UNCHANGED <<cancelled, sinkVars, callerVars, histVars>>

\* if let Err(err) = cb.on_message(..).await { warn!(..) }, then the next
\* iteration of the loop (a new select! call)
PumpAfterCallback(res) ==
    /\ warned' = IF res = "Err" THEN warned + 1 ELSE warned
    /\ pumpPc' = "poll_cancel"
    /\ streamOff' = FALSE
    /\ UNCHANGED <<cancelled, sinkVars, callerVars, histVars>>

\* the callback returns Ok or Err
on_message_return(res) ==
    /\ pumpPc = "await_cb"
    /\ cbInFlight > 0
    /\ cbInFlight' = cbInFlight - 1
    /\ PumpAfterCallback(res)
    /\ UNCHANGED <<subVars, access, peerVars, taken, delivered, streamVars>>

(* ----------------------------- the engine ----------------------------- *)

\* the engine puts an item on the inbound stream of the subscription
engine_emit(event) ==
    /\ pumpPc \notin {"none", "stopped"}
    /\ ~streamClosed
    /\ Len(arrived) < MaxItems
    /\ arrived' = Append(arrived, event)
    /\ UNCHANGED <<subVars, access, peerVars, pumpVars, streamClosed, cancelled, sinkVars,
                   callerVars, histVars>>

\* the engine ends the inbound stream
engine_close ==
    /\ pumpPc \notin {"none", "stopped"}
    /\ ~streamClosed
    /\ streamClosed' = TRUE
    /\ UNCHANGED <<subVars, access, peerVars, pumpVars, arrived, cancelled, sinkVars, callerVars,
                   histVars>>

(* ----------------------------- the Sender ----------------------------- *)

\* calls that will still put an update on the sink
SendsPending == Cardinality({t \in Threads : tpc[t] \in {"lock", "io"}
                                              /\ top[t].op # "Cancel"})

\* a caller enters broadcast or broadcast_neighbors: self.sink.lock()
SendBegin(t, op, msg) ==
    /\ HandleExists
    /\ tpc[t] = "idle"
    /\ Len(outbound) + SendsPending < MaxOut
    /\ tpc' = [tpc EXCEPT ![t] = "lock"]
    /\ top' = [top EXCEPT ![t] = [op |-> op, msg |-> msg]]
    /\ tres' = [tres EXCEPT ![t] = "none"]
    /\ tafter' = [tafter EXCEPT ![t] = cancelOk]
    /\ tretry' = [tretry EXCEPT ![t] = FALSE]
    /\ UNCHANGED <<subVars, access, peerVars, pumpVars, streamVars, cancelled, sinkVars, histVars>>

broadcast(t, msg) == SendBegin(t, "Broadcast", msg)

broadcast_neighbors(t, msg) == SendBegin(t, "BroadcastNeighbors", msg)

\* mutant: cancel does not look at the token
CancelGuard_Never == FALSE

\* if self.cancel.is_cancelled() { return Err("already closed") }
CancelGuard == cancelled

\* a caller enters cancel
\* a cancel() has returned the error of close and its caller made no call since
CloseHasFailed == \E u \in Threads : tpc[u] = "idle" /\ tres[u] = "CloseError"

\* mutant: the token is cancelled before the sink is locked and closed
cancel_TokenFirst(t) ==
    /\ HandleExists
    /\ tpc[t] = "idle"
    /\ top' = [top EXCEPT ![t] = [op |-> "Cancel", msg |-> <<>>]]
    /\ tafter' = [tafter EXCEPT ![t] = cancelOk]
    /\ tretry' = [tretry EXCEPT ![t] = CloseHasFailed /\ ~CancelGuard]
    /\ IF CancelGuard
       THEN /\ tres' = [tres EXCEPT ![t] = "AlreadyClosed"]
            /\ UNCHANGED <<tpc, cancelled>>
       ELSE /\ tres' = [tres EXCEPT ![t] = "none"]
            /\ tpc' = [tpc EXCEPT ![t] = "lock"]
            /\ cancelled' = TRUE
    /\ UNCHANGED <<subVars, access, peerVars, pumpVars, streamVars, sinkVars, histVars>>

cancel(t) ==
    /\ HandleExists
    /\ tpc[t] = "idle"
    /\ top' = [top EXCEPT ![t] = [op |-> "Cancel", msg |-> <<>>]]
    /\ tafter' = [tafter EXCEPT ![t] = cancelOk]
    /\ tretry' = [tretry EXCEPT ![t] = CloseHasFailed /\ ~CancelGuard]
    /\ IF CancelGuard
       THEN /\ tres' = [tres EXCEPT ![t] = "AlreadyClosed"]
            /\ UNCHANGED tpc
       ELSE /\ tres' = [tres EXCEPT ![t] = "none"]
            /\ tpc' = [tpc EXCEPT ![t] = "lock"]
    /\ UNCHANGED <<subVars, access, peerVars, pumpVars, streamVars, cancelled, sinkVars, histVars>>

\* mutant: the sink is used without waiting for the mutex
LockFree_Always == TRUE

\* mutant: the pump holds the mutex while on_message runs
LockFree_NotDuringCallback == sinkLock = "free" /\ cbInFlight = 0

\* tokio Mutex: lock().await completes when no one holds the sink
LockFree == sinkLock = "free"

sink_lock(t) ==
    /\ tpc[t] = "lock"
    /\ LockFree
    /\ sinkLock' = t
    /\ tpc' = [tpc EXCEPT ![t] = "io"]
    /\ UNCHANGED <<subVars, access, peerVars, pumpVars, streamVars, cancelled, sinkClosed, outbound,
                   top, tres, tafter, tretry, histVars>>

\* what Sink::send may return; the Sink contract does not say what a send
\* after a successful close does, so both outcomes are possible there too
SendOutcomes(closed) == {"Ok", "Err"}

\* the guard is a temporary of the statement: it is dropped when send
\* has completed, also when `?` returns the error
SendRelease(t, res) == "free"

\* mutant: the update is built and never handed to the sink
sink_send_NotSent(t, res) ==
    /\ tpc[t] = "io"
    /\ top[t].op \in {"Broadcast", "BroadcastNeighbors"}
    /\ res \in SendOutcomes(sinkClosed)
    /\ sinkLock' = SendRelease(t, res)
    /\ tres' = [tres EXCEPT ![t] = IF res = "Ok" THEN "Ok" ELSE "SendError"]
    /\ tpc' = [tpc EXCEPT ![t] = "idle"]
    /\ UNCHANGED <<subVars, access, peerVars, pumpVars, streamVars, cancelled, sinkClosed,
                   outbound, top, tafter, tretry, histVars>>

\* .send(SubscribeUpdate::..(msg.into())).await?; Ok(())
sink_send(t, res) ==
    /\ tpc[t] = "io"
    /\ top[t].op \in {"Broadcast", "BroadcastNeighbors"}
    /\ res \in SendOutcomes(sinkClosed)
    /\ outbound' = IF res = "Ok" THEN Append(outbound, top[t]) ELSE outbound
    /\ sinkLock' = SendRelease(t, res)
    /\ tres' = [tres EXCEPT ![t] = IF res = "Ok" THEN "Ok" ELSE "SendError"]
    /\ tpc' = [tpc EXCEPT ![t] = "idle"]
    /\ UNCHANGED <<subVars, access, peerVars, pumpVars, streamVars, cancelled, sinkClosed, top,
                   tafter, tretry, histVars>>

\* mutant: the token is cancelled whatever close returned
sink_close_CancelsOnError(t, res) ==
    /\ tpc[t] = "io"
    /\ top[t].op = "Cancel"
    /\ res \in {"Ok", "Err"}
    /\ sinkLock' = "free"
    /\ tretry' = [tretry EXCEPT ![t] = tretry[t] /\ res = "Ok"]
    /\ IF res = "Ok"
       THEN /\ sinkClosed' = TRUE
            /\ tpc' = [tpc EXCEPT ![t] = "set"]
            /\ UNCHANGED <<tres, cancelled>>
       ELSE /\ tpc' = [tpc EXCEPT ![t] = "idle"]
            /\ tres' = [tres EXCEPT ![t] = "CloseError"]
            /\ cancelled' = TRUE
            /\ UNCHANGED sinkClosed
    /\ UNCHANGED <<subVars, access, peerVars, pumpVars, streamVars, outbound, top,
                   tafter, histVars>>

\* self.sink.lock().await.close().await?;
sink_close(t, res) ==
    /\ tpc[t] = "io"
    /\ top[t].op = "Cancel"
    /\ res \in {"Ok", "Err"}
    /\ sinkLock' = "free"
    /\ tretry' = [tretry EXCEPT ![t] = tretry[t] /\ res = "Ok"]
    /\ IF res = "Ok"
       THEN /\ sinkClosed' = TRUE
            /\ tpc' = [tpc EXCEPT ![t] = "set"]
            /\ UNCHANGED tres
       ELSE /\ tpc' = [tpc EXCEPT ![t] = "idle"]
            /\ tres' = [tres EXCEPT ![t] = "CloseError"]
            /\ UNCHANGED sinkClosed
    /\ UNCHANGED <<subVars, access, peerVars, pumpVars, streamVars, cancelled, outbound, top,
                   tafter, histVars>>

\* mutant: cancel() closes the sink and leaves the token as it is
TokenCancel_Forgotten == FALSE

\* self.cancel.cancel()
TokenCancel == TRUE

\* mutant: cancel() waits until no on_message invocation is in progress
cancel_token_AwaitsCallback(t) ==
    /\ tpc[t] = "set"
    /\ cbInFlight = 0
    /\ cancelled' = (cancelled \/ TokenCancel)
    /\ tpc' = [tpc EXCEPT ![t] = "idle"]
    /\ tres' = [tres EXCEPT ![t] = "Ok"]
    /\ cancelOk' = TRUE
    /\ deliveredAtCancel' = IF cancelOk THEN deliveredAtCancel ELSE Len(delivered)
    /\ tretry' = [tretry EXCEPT ![t] = FALSE]
    /\ UNCHANGED <<subVars, access, peerVars, pumpVars, streamVars, sinkVars, top, tafter>>

\* self.cancel.cancel(); Ok(())
cancel_token(t) ==
    /\ tpc[t] = "set"
    /\ cancelled' = (cancelled \/ TokenCancel)
    /\ tpc' = [tpc EXCEPT ![t] = "idle"]
    /\ tres' = [tres EXCEPT ![t] = "Ok"]
    /\ cancelOk' = TRUE
    /\ deliveredAtCancel' = IF cancelOk THEN deliveredAtCancel ELSE Len(delivered)
    /\ tretry' = [tretry EXCEPT ![t] = FALSE]
    /\ UNCHANGED <<subVars, access, peerVars, pumpVars, streamVars, sinkVars, top, tafter>>

(* --------------------------- specification ---------------------------- *)

\* the subscribe call of the test: a 32-byte topic, the peer's id
SubscribeOne ==
    \E ok \in BOOLEAN : subscribe(TopicOf(TOPIC_LEN), <<NodeIdToString(2)>>, ok)

\* any subscribe call
SubscribeAny ==
    \E n \in TopicLens, b \in BootLists, ok \in BOOLEAN : subscribe(TopicOf(n), b, ok)

PumpStep ==
    \/ pump_poll_cancelled
    \/ pump_poll_stream
    \/ pump_wake
    \/ \E res \in {"Ok", "Err"} : on_message_return(res)

EngineStep(events) ==
    \/ \E e \in events : engine_emit(e)
    \/ engine_close

CancelStep(threads) ==
    \/ \E t \in threads : cancel(t)
    \/ \E t \in threads : sink_lock(t)
    \/ \E t \in threads, res \in {"Ok", "Err"} : sink_close(t, res)
    \/ \E t \in threads : cancel_token(t)

SendStep(threads) ==
    \/ \E t \in threads, m \in Payloads : broadcast(t, m)
    \/ \E t \in threads, m \in Payloads : broadcast_neighbors(t, m)
    \/ \E t \in threads, res \in {"Ok", "Err"} : sink_send(t, res)

\* the pump against every kind of inbound item and concurrent cancel calls
NextPump == SubscribeOne \/ PumpStep \/ EngineStep(Events) \/ CancelStep(Threads)

SpecPump == Init /\ [][NextPump]_vars

\* the Sender under concurrent callers, with the pump running
NextSender ==
    \/ SubscribeOne
    \/ PumpStep
    \/ EngineStep({[ok |-> TRUE, kind |-> "Lagged"]})
    \/ CancelStep(Threads)
    \/ SendStep(Threads)

SpecSender == Init /\ [][NextSender]_vars

\* subscribe with every argument
NextSubscribe ==
    \/ SubscribeAny
    \/ PumpStep
    \/ EngineStep({[ok |-> FALSE, err |-> "stream error"]})

SpecSubscribe == Init /\ [][NextSubscribe]_vars

\* the runtime polls the pump task whenever it can make a step, and every
\* on_message invocation returns
PumpFairness ==
    /\ WF_vars(pump_poll_cancelled)
    /\ WF_vars(pump_poll_stream)
    /\ WF_vars(pump_wake)
    /\ WF_vars(\E res \in {"Ok", "Err"} : on_message_return(res))

\* the pump and concurrent cancel calls, against two kinds of inbound item
NextCancel ==
    \/ SubscribeOne
    \/ PumpStep
    \/ EngineStep({[ok |-> TRUE, kind |-> "Lagged"], [ok |-> FALSE, err |-> "stream error"]})
    \/ CancelStep(Threads)

FairSpecCancel == Init /\ [][NextCancel]_vars /\ PumpFairness

\* the accessors of Message, called on every message
NextMessage == \E m \in Messages, a \in Accessors : call_accessor(m, a)

SpecMessage == Init /\ [][NextMessage]_vars

\* the caller that is the callback itself: its calls on the handle are made
\* from inside on_message, on the task of the pump
Callback == "t1"

\* on_message calls a method of the Sender of its own subscription
callback_call ==
    /\ cbInFlight = 1
    /\ \/ \E m \in Payloads : broadcast(Callback, m)
       \/ \E m \in Payloads : broadcast_neighbors(Callback, m)
       \/ cancel(Callback)

\* on_message returns once the call it made has returned
callback_return(res) ==
    /\ tpc[Callback] = "idle"
    /\ on_message_return(res)

SinkStep ==
    \/ \E t \in Threads : sink_lock(t)
    \/ \E t \in Threads, res \in {"Ok", "Err"} : sink_send(t, res)
    \/ \E t \in Threads, res \in {"Ok", "Err"} : sink_close(t, res)
    \/ \E t \in Threads : cancel_token(t)

\* a callback that uses the handle, next to a caller outside the pump
NextReentrant ==
    \/ SubscribeOne
    \/ pump_poll_cancelled
    \/ pump_poll_stream
    \/ pump_wake
    \/ callback_call
    \/ \E res \in {"Ok", "Err"} : callback_return(res)
    \/ EngineStep({[ok |-> TRUE, kind |-> "Lagged"]})
    \/ \E m \in Payloads : broadcast("t2", m)
    \/ cancel("t2")
    \/ SinkStep

\* the task of the pump and the callers are scheduled, the sink operations
\* complete, the tokio Mutex serves its waiters in order (a waiter is not
\* overtaken forever), and on_message returns when it can
ReentrantFairness ==
    /\ WF_vars(pump_poll_cancelled)
    /\ WF_vars(pump_poll_stream)
    /\ WF_vars(pump_wake)
    /\ SF_vars(\E res \in {"Ok", "Err"} : callback_return(res))
    /\ \A t \in Threads :
          /\ SF_vars(sink_lock(t))
          /\ WF_vars(\E res \in {"Ok", "Err"} : sink_send(t, res))
          /\ WF_vars(\E res \in {"Ok", "Err"} : sink_close(t, res))
          /\ WF_vars(cancel_token(t))

FairSpecReentrant == Init /\ [][NextReentrant]_vars /\ ReentrantFairness

(* ------------------------- two nodes, one topic ------------------------ *)

\* the two nodes of the test: n0 holds the subscription above, n1 is its peer
Self == 1
Peer == 2

\* the payloads n0 broadcasts
ScenarioPayloads == {<<104, 105>>, <<111>>}

\* every other variable: the peer and the engine leave them alone
nodeVars == <<subVars, pumpVars, cancelled, sinkVars, callerVars, histVars, access>>

\* n1.gossip().subscribe(topic, vec![n0_id.to_string()], cb1): the same checks,
\* then the pump of n1 is spawned; the Sender it returns is dropped unused
peer_subscribe(engineOk) ==
    /\ peer.pc = "none"
    /\ TopicOk(TopicOf(TOPIC_LEN))
    /\ ParseBootstrap(<<NodeIdToString(Self)>>).ok
    /\ engineOk
    /\ peer' = [peer EXCEPT !.pc = "poll_cancel",
                            !.bootstrap = ParseBootstrap(<<NodeIdToString(Self)>>).ids]
    /\ UNCHANGED <<nodeVars, streamVars, net>>

\* the pump of n1; cancel() is never called on its Sender, so cancelled() is
\* Pending at every poll
peer_poll_cancelled ==
    /\ peer.pc = "poll_cancel"
    /\ peer' = [peer EXCEPT !.pc = "poll_stream"]
    /\ UNCHANGED <<nodeVars, streamVars, net>>

peer_poll_stream ==
    /\ peer.pc = "poll_stream"
    /\ peer' = IF peer.taken < Len(peer.arrived)
               THEN [peer EXCEPT !.taken = @ + 1,
                                 !.delivered = Append(@, ToMessage(peer.arrived[peer.taken + 1])),
                                 !.cbInFlight = @ + 1,
                                 !.pc = "await_cb"]
               ELSE [peer EXCEPT !.pc = "parked"]
    /\ UNCHANGED <<nodeVars, streamVars, net>>

peer_wake ==
    /\ peer.pc = "parked"
    /\ peer.taken < Len(peer.arrived)
    /\ peer' = [peer EXCEPT !.pc = "poll_cancel"]
    /\ UNCHANGED <<nodeVars, streamVars, net>>

peer_on_message_return ==
    /\ peer.pc = "await_cb"
    /\ peer.cbInFlight > 0
    /\ peer' = [peer EXCEPT !.cbInFlight = @ - 1, !.pc = "poll_cancel"]
    /\ UNCHANGED <<nodeVars, streamVars, net>>

PeerPumpStep ==
    \/ peer_poll_cancelled
    \/ peer_poll_stream
    \/ peer_wake
    \/ peer_on_message_return

\* the elements of a sequence
Range(seq) == {seq[i] : i \in 1..Len(seq)}

\* both nodes are subscribed to the topic and each was given the other
Connected ==
    /\ subResult.status = "Ok"
    /\ peer.pc # "none"
    /\ engineCalls # <<>>
    /\ engineCalls[Len(engineCalls)].topic = TopicOf(TOPIC_LEN)
    /\ Peer \in Range(engineCalls[Len(engineCalls)].bootstrap)
    /\ Self \in Range(peer.bootstrap)

\* the engine tells a node that it has joined, with its neighbor
engine_join(n) ==
    /\ Connected
    /\ n \notin net.joined
    /\ net' = [net EXCEPT !.joined = @ \cup {n}]
    /\ IF n = Self
       THEN /\ ~streamClosed
            /\ Len(arrived) < MaxItems
            /\ arrived' = Append(arrived, [ok |-> TRUE, kind |-> "Joined", nodes |-> <<Peer>>])
            /\ UNCHANGED <<streamClosed, peer>>
       ELSE /\ peer' = [peer EXCEPT !.arrived =
                           Append(@, [ok |-> TRUE, kind |-> "Joined", nodes |-> <<Self>>])]
            /\ UNCHANGED streamVars
    /\ UNCHANGED nodeVars

\* the engine carries a broadcast of n0, once joined, to the stream of n1
engine_relay ==
    /\ Self \in net.joined
    /\ net.relayed < Len(outbound)
    /\ net' = [net EXCEPT !.relayed = @ + 1]
    /\ peer' = [peer EXCEPT !.arrived =
                   Append(@, [ok |-> TRUE, kind |-> "Received",
                              content |-> outbound[net.relayed + 1].msg,
                              delivered_from |-> Self])]
    /\ UNCHANGED <<nodeVars, streamVars>>

\* n0 has been handed Joined with the id of n1
JoinedDelivered ==
    \E i \in 1..Len(delivered) : delivered[i] = MsgJoined(<<NodeIdToString(Peer)>>)

\* the test: n0 broadcasts after it has seen Joined
scenario_broadcast ==
    /\ JoinedDelivered
    /\ \E t \in Threads, m \in ScenarioPayloads : broadcast(t, m)

NextGossip ==
    \/ SubscribeOne
    \/ \E ok \in BOOLEAN : peer_subscribe(ok)
    \/ PumpStep
    \/ PeerPumpStep
    \/ \E n \in {Self, Peer} : engine_join(n)
    \/ engine_relay
    \/ scenario_broadcast
    \/ \E t \in Threads : sink_lock(t)
    \/ \E t \in Threads, res \in {"Ok", "Err"} : sink_send(t, res)

\* both pumps are scheduled and the engine delivers what it has to deliver
GossipFairness ==
    /\ PumpFairness
    /\ WF_vars(peer_poll_cancelled)
    /\ WF_vars(peer_poll_stream)
    /\ WF_vars(peer_wake)
    /\ WF_vars(peer_on_message_return)
    /\ \A n \in {Self, Peer} : WF_vars(engine_join(n))
    /\ WF_vars(engine_relay)

FairSpecGossip == Init /\ [][NextGossip]_vars /\ GossipFairness

(* ------------------------------ claims -------------------------------- *)

\* the tag Message::type() reports for the message built from an inbound item
ExpectedType(event) == IF event.ok THEN event.kind ELSE "Error"

\* the calls of caller t that began after some cancel() had returned Ok
LaterCall(t, ops) == top[t].op \in ops /\ tafter[t]

Sends == {"Broadcast", "BroadcastNeighbors"}

\* C1: on_message is invoked for the inbound items in their order of arrival,
\* one message per item taken, and at most one invocation is in progress at
\* any time (an item is taken only when no invocation is in progress).
C1_OrderedSerialized ==
    /\ taken <= Len(arrived)
    /\ Len(delivered) = taken
    /\ \A i \in 1..Len(delivered) : delivered[i].type = ExpectedType(arrived[i])
    /\ cbInFlight <= 1
    /\ cbInFlight = 1 <=> pumpPc = "await_cb"

\* two items of different kinds were delivered in order, the second in progress
C1_Witness ==
    /\ Len(delivered) = 2
    /\ delivered[1].type # delivered[2].type
    /\ cbInFlight = 1

\* C2 (as claimed): once a cancel() has returned Ok, no on_message invocation
\* begins any more.
C2_NoDeliveryAfterCancel == cancelOk => Len(delivered) = deliveredAtCancel

\* C2 (amended): once a cancel() has returned Ok, at most one more on_message
\* invocation begins (for the iteration of the loop that had passed its
\* cancellation check before the signal was set); after it the pump is in that
\* invocation, at its next cancellation check, or stopped.
C2_AtMostOneAfterCancel ==
    cancelOk =>
        /\ Len(delivered) <= deliveredAtCancel + 1
        /\ Len(delivered) = deliveredAtCancel + 1
               => pumpPc \in {"await_cb", "poll_cancel", "stopped"}

\* an invocation began after cancel() had returned Ok
C2_Witness == cancelOk /\ Len(delivered) = deliveredAtCancel + 1

\* C3: a cancel() call that begins after a cancel() has returned Ok returns
\* AlreadyClosed (and never gets to the sink).
C3_LaterCancelAlreadyClosed ==
    \A t \in Threads :
        LaterCall(t, {"Cancel"}) => tpc[t] = "idle" /\ tres[t] = "AlreadyClosed"

\* a cancel() call made after a successful one has returned
C3_Witness ==
    \E t \in Threads : LaterCall(t, {"Cancel"}) /\ tres[t] = "AlreadyClosed"

\* C4 (as claimed): when stream.next() has yielded None (the stream is
\* exhausted) and the signal is not set, the pump has left its loop.
C4_StopsOnExhaustion == (streamOff /\ ~cancelled) => pumpPc = "stopped"

\* C5: every Err item taken from the stream was delivered as exactly one
\* Message::Error, the items taken after it were delivered too, and the pump
\* does not stop unless the signal is set.
C5_ErrorItemDelivered ==
    /\ \A i \in 1..taken :
           ~arrived[i].ok => i <= Len(delivered) /\ delivered[i].type = "Error"
    /\ Cardinality({i \in 1..Len(delivered) : delivered[i].type = "Error"})
           = Cardinality({i \in 1..taken : ~arrived[i].ok})
    /\ Len(delivered) = taken
    /\ pumpPc = "stopped" => cancelled

\* an Err item was delivered and the item after it was delivered too
C5_Witness ==
    /\ Len(delivered) = 2
    /\ ~arrived[1].ok
    /\ delivered[1].type = "Error"
    /\ arrived[2].ok
    /\ ~cancelled

\* C6: the step in which on_message returns an error (a warn! line is logged)
\* puts the pump at the next iteration of its loop and changes neither the
\* signal, nor the sink, nor any caller's call or result.
C6_CallbackErrorAbsorbed ==
    [][warned' = warned + 1 =>
          /\ pumpPc' = "poll_cancel"
          /\ cancelled' = cancelled
          /\ sinkVars' = sinkVars
          /\ callerVars' = callerVars
          /\ taken' = taken /\ delivered' = delivered]_vars

\* a callback failed and the pump delivered the next item afterwards
C6_Witness == warned = 1 /\ Len(delivered) = 2 /\ cbInFlight = 1 /\ ~cancelled

C8_BadTopicRejected ==
    (subResult.status # "none" /\ Len(subArgs.topic) # TOPIC_LEN) =>
        /\ subResult.status = "Err"
        /\ subResult.err = "topic"
        /\ engineCalls = <<>>
        /\ pumpPc = "none"
        /\ ~HandleExists

\* subscribe was called with a topic shorter than 32 bytes
C8_Witness == subResult.status = "Err" /\ Len(subArgs.topic) = TOPIC_LEN - 1

\* an entry of the list is no textual node id
Unparseable(bootstrap) ==
    \E i \in 1..Len(bootstrap) : bootstrap[i] \notin {NodeIdToString(n) : n \in NodeIds}

\* C9: subscribe with a 32-byte topic and a bootstrap list that holds an entry
\* that does not parse returns the parse error, calls the engine's subscribe
\* never, spawns no pump and returns no Sender.
C9_BadBootstrapRejected ==
    (/\ subResult.status # "none"
     /\ Len(subArgs.topic) = TOPIC_LEN
     /\ Unparseable(subArgs.bootstrap)) =>
        /\ subResult.status = "Err"
        /\ subResult.err = "parse"
        /\ engineCalls = <<>>
        /\ pumpPc = "none"
        /\ ~HandleExists

\* subscribe was called with a list of a valid entry followed by a bad one
C9_Witness ==
    /\ subResult.status = "Err"
    /\ Len(subArgs.topic) = TOPIC_LEN
    /\ Len(subArgs.bootstrap) = 2
    /\ subArgs.bootstrap[1] = NodeIdToString(1)
    /\ subArgs.bootstrap[2] = "zz"

\* C10: at most one call is sending on or closing the sink, that call holds
\* the lock, and the lock is held by no call that has ended or not yet got it.
C10_SinkMutualExclusion ==
    /\ Cardinality({t \in Threads : tpc[t] = "io"}) <= 1
    /\ \A t \in Threads : tpc[t] = "io" <=> sinkLock = t

\* a broadcast waits for the lock while a cancel that holds it closes the sink
C10_Witness ==
    \E t, u \in Threads :
        /\ tpc[t] = "io" /\ top[t].op = "Cancel"
        /\ tpc[u] = "lock" /\ top[u].op \in Sends

\* C11: once a cancel() has returned Ok the pump eventually is stopped (given
\* that the on_message invocation in progress returns), and a stopped pump
\* stays stopped and invokes the callback no more.
C11_CancelStopsPump ==
    /\ cancelOk ~> (pumpPc = "stopped")
    /\ [][pumpPc = "stopped" =>
            (pumpPc' = "stopped" /\ delivered' = delivered /\ cbInFlight' = 0)]_vars

\* the pump has stopped after a cancel() and after the one invocation that
\* began once the cancel() had returned
C11_Witness ==
    /\ cancelOk
    /\ pumpPc = "stopped"
    /\ Len(delivered) = deliveredAtCancel + 1

\* the variant a narrowing accessor is for
VariantOf(a) ==
    CASE a = "as_neighbor_up" -> "NeighborUp"
      [] a = "as_neighbor_down" -> "NeighborDown"
      [] a = "as_joined" -> "Joined"
      [] a = "as_received" -> "Received"
      [] a = "as_error" -> "Error"

Narrowing == Accessors \ {"type"}

\* C13 (as claimed): a narrowing accessor called on a message of its variant
\* returns, and called on a message of another variant it yields an explicit
\* error result (InvalidVariantAccess) and does not panic.
C13_MismatchIsErrorResult ==
    access.accessor \in Narrowing =>
        IF access.msg.type = VariantOf(access.accessor)
        THEN access.outcome = "return"
        ELSE access.outcome = "InvalidVariantAccess"

\* C14: a loop iteration that starts with the signal set ends the pump and
\* takes no item, also when items are ready; with the signal set an item can
\* only be taken by an iteration whose cancellation check came before.
C14_CancelledBeforeItem ==
    /\ [][(pumpPc = "poll_cancel" /\ cancelled /\ pumpPc' # pumpPc) =>
              (pumpPc' = "stopped" /\ taken' = taken /\ delivered' = delivered)]_vars
    /\ [][(cancelled /\ pumpPc # "poll_stream") => taken' = taken]_vars

\* the pump stopped on the signal and left a backlog of two ready items
C14_Witness ==
    /\ pumpPc = "stopped"
    /\ cancelled
    /\ Len(arrived) - taken = 2

\* the cancel() calls that have returned Ok and were not followed by another
\* call of the same caller
CancelSucceeded == {t \in Threads : top[t].op = "Cancel" /\ tpc[t] = "idle"
                                      /\ tres[t] = "Ok"}

\* C15 (as claimed): of the cancel() calls issued on one Sender at most one
\* closes the sink, sets the signal and returns Ok: no call closes a sink that
\* a call has closed, and no two calls return Ok.
C15_SingleCancelSucceeds ==
    /\ \A t \in Threads : ~(tpc[t] = "io" /\ top[t].op = "Cancel" /\ sinkClosed)
    /\ Cardinality(CancelSucceeded) <= 1

\* C16: a cancel() that holds the sink lock can complete the close, and one
\* whose close has completed can set the signal and return, in every state of
\* the pump; the step that returns Ok leaves the signal set and the sink
\* closed and changes nothing of the pump, so an invocation in progress stays
\* in progress.
C16_CancelDoesNotWait ==
    /\ [](\A t \in Threads :
             /\ (tpc[t] = "io" /\ top[t].op = "Cancel") => ENABLED sink_close(t, "Ok")
             /\ tpc[t] = "set" => ENABLED cancel_token(t))
    /\ [][\A t \in Threads :
             (tpc[t] = "set" /\ tpc'[t] = "idle") =>
                 /\ tres'[t] = "Ok"
                 /\ cancelled' /\ sinkClosed'
                 /\ pumpVars' = pumpVars]_vars

\* a cancel() has returned Ok and the invocation that was in progress then is
\* still in progress
C16_Witness ==
    /\ cancelOk
    /\ cbInFlight = 1
    /\ pumpPc = "await_cb"
    /\ Len(delivered) = deliveredAtCancel

\* the node a delivered string stands for
NodeOf(str) == ParseNodeId(str).id

\* message m carries what inbound item e carried
Carries(m, e) ==
    IF ~e.ok THEN m.type = "Error" /\ m.s = e.err
    ELSE /\ m.type = e.kind
         /\ e.kind \in {"NeighborUp", "NeighborDown"} => NodeOf(m.s) = e.n
         /\ e.kind = "Received" =>
                /\ m.content = e.content
                /\ NodeOf(m.delivered_from) = e.delivered_from
         /\ e.kind = "Joined" =>
                /\ Len(m.nodes) = Len(e.nodes)
                /\ \A j \in 1..Len(e.nodes) : NodeOf(m.nodes[j]) = e.nodes[j]
         /\ e.kind = "Lagged" => DOMAIN m = {"type"}

\* C17: every item taken from the stream has been handed to on_message exactly
\* once, as the message of its variant with its payload: the i-th invocation
\* carries the i-th item, and there are as many invocations as items taken.
C17_OneMessagePerItem ==
    /\ Len(delivered) = taken
    /\ taken <= Len(arrived)
    /\ \A i \in 1..Len(delivered) : Carries(delivered[i], arrived[i])

\* a Joined item with two peers and a Received item were delivered
C17_Witness ==
    /\ Len(delivered) = 2
    /\ delivered[1].type = "Joined" /\ Len(delivered[1].nodes) = 2
    /\ delivered[2].type = "Received"

\* C18: a cancel() whose close fails returns that error, releases the sink and
\* changes neither the token nor the pump; while the token is not cancelled the
\* pump has not stopped; and a cancel() that begins after such a failure, with
\* no cancel() having succeeded, does not return "already closed": it goes on
\* to lock the sink and close it.
C18_CloseFailureLeavesActive ==
    /\ [][\A t \in Threads :
             (tpc[t] = "io" /\ top[t].op = "Cancel" /\ tpc'[t] = "idle") =>
                 /\ tres'[t] = "CloseError"
                 /\ cancelled' = cancelled /\ sinkClosed' = sinkClosed
                 /\ sinkLock' = "free"
                 /\ pumpVars' = pumpVars]_vars
    /\ [](~cancelled => pumpPc # "stopped")
    /\ [][\A t \in Threads :
             (CloseHasFailed /\ ~cancelOk /\ tpc[t] = "idle" /\ top'[t].op = "Cancel"
                 /\ <<tpc[t], top[t], tres[t]>>' # <<tpc[t], top[t], tres[t]>>) =>
                 (tpc'[t] = "lock" /\ tretry'[t])]_vars
    /\ [](\A t \in Threads : tretry[t] => tpc[t] \in {"lock", "io", "set"})

\* after a cancel() returned the error of close, the pump is in an invocation
\* and a cancel() that began after the failure is closing the sink
C18_Witness ==
    /\ ~cancelled
    /\ pumpPc = "await_cb" /\ cbInFlight = 1
    /\ \E t \in Threads :
          /\ top[t].op = "Cancel" /\ tretry[t]
          /\ tpc[t] = "io"

\* C19: whenever the token is cancelled the sink has been closed with success
\* by a cancel() that has returned Ok; the step that cancels the token is the
\* last step of a cancel() whose close has completed, never a step of a
\* cancel() that waits for the sink or is closing it.
C19_CancelledImpliesClosed ==
    /\ [](cancelled => (sinkClosed /\ cancelOk))
    /\ [][(~cancelled /\ cancelled') =>
              /\ sinkClosed
              /\ \E t \in Threads : tpc[t] = "set" /\ tpc'[t] = "idle" /\ sinkLock # t]_vars

\* a cancel() waits for the sink behind a broadcast that holds it, the token is
\* not cancelled and the pump is in an invocation
C19_Witness ==
    /\ \E t, u \in Threads :
          /\ top[t].op = "Broadcast" /\ tpc[t] = "io" /\ sinkLock = t
          /\ top[u].op = "Cancel" /\ tpc[u] = "lock"
    /\ ~cancelled
    /\ pumpPc = "await_cb" /\ cbInFlight = 1

\* a call made by the callback is in progress
CallbackCalling == cbInFlight = 1 /\ tpc[Callback] # "idle"

\* the cancel() the callback made has returned Ok
CallbackCancelled ==
    /\ top[Callback].op = "Cancel"
    /\ tpc[Callback] = "idle"
    /\ tres[Callback] = "Ok"

\* C20: the sink is only ever held by a caller of the Sender, and a step that
\* takes or releases it is no step of the pump; a call the callback makes on
\* its own handle is never blocked by the pump: it waits only for a caller
\* that is in a sink operation, and it completes; after a cancel() made by the
\* callback has returned Ok the pump takes no further item and stops.
C20_CallbackMayUseHandle ==
    /\ [](sinkLock \in Threads \cup {"free"})
    /\ [][sinkLock' # sinkLock => pumpVars' = pumpVars]_vars
    /\ [](tpc[Callback] = "lock" =>
             \/ ENABLED sink_lock(Callback)
             \/ \E u \in Threads \ {Callback} : sinkLock = u /\ tpc[u] = "io")
    /\ [](tpc[Callback] = "io" =>
             \/ ENABLED sink_send(Callback, "Ok")
             \/ ENABLED sink_close(Callback, "Ok"))
    /\ [](tpc[Callback] = "set" => ENABLED cancel_token(Callback))
    /\ CallbackCalling ~> (tpc[Callback] = "idle")
    /\ CallbackCalling ~> (cbInFlight = 0)
    /\ [](CallbackCancelled => pumpPc \in {"await_cb", "poll_cancel", "stopped"})
    /\ [](CallbackCancelled => Len(delivered) = deliveredAtCancel)
    /\ CallbackCancelled ~> (pumpPc = "stopped")

\* the cancel() the callback made from inside on_message has returned Ok, the
\* callback has returned and the pump has stopped
C20_Witness ==
    /\ CallbackCancelled /\ ~tafter[Callback]
    /\ cbInFlight = 0
    /\ pumpPc = "stopped"

\* n0 has had broadcast(m) return Ok
BroadcastOk(m) ==
    \E t \in Threads :
        top[t] = [op |-> "Broadcast", msg |-> m] /\ tpc[t] = "idle" /\ tres[t] = "Ok"

\* the callback of n1 has been handed Received with content m from n0
PeerReceived(m) ==
    \E i \in 1..Len(peer.delivered) :
        peer.delivered[i] = MsgReceived(m, NodeIdToString(Self))

\* C12: once both nodes are subscribed to the 32-byte topic, each with the
\* other's id, the callback of n0 is eventually handed Joined with the id of
\* n1; once a broadcast of n0 has returned Ok, the callback of n1 is eventually
\* handed Received with that payload, delivered from n0; and n1 is handed no
\* Received that n0 did not send.
C12_JoinedThenReceived ==
    /\ Connected ~> JoinedDelivered
    /\ \A m \in ScenarioPayloads : BroadcastOk(m) ~> PeerReceived(m)
    /\ [](\A i \in 1..Len(peer.delivered) :
             peer.delivered[i].type = "Received" =>
                 /\ peer.delivered[i].delivered_from = NodeIdToString(Self)
                 /\ \E k \in 1..Len(outbound) :
                       /\ outbound[k].op = "Broadcast"
                       /\ outbound[k].msg = peer.delivered[i].content)

\* n0 was handed Joined, its broadcast returned Ok and n1 was handed the payload
C12_Witness ==
    /\ JoinedDelivered
    /\ BroadcastOk(<<111>>)
    /\ PeerReceived(<<111>>)

====
